---- MODULE Spec2Model ----
(***************************************************************************)
(* A model of the complexity analyzer: the GitHub repository source        *)
(* (github_client.py), the pydantic data model (models.py), the            *)
(* orchestrator RepositoryAnalyzer (analyzer.py), the token manager        *)
(* (token_manager.py) and the saving of a report (cli.py).                 *)
(*                                                                         *)
(* A path, URL or pattern is a sequence of one-character strings; the text *)
(* of a file and the text given to the token manager is a sequence of      *)
(* Unicode code points.  Scores are floats in the code; here an input      *)
(* score is a whole number of points and the report's score, which the     *)
(* code rounds to two decimals, is a number of hundredths of a point.      *)
(***************************************************************************)
EXTENDS Integers, Sequences, FiniteSets, TLC

VARIABLES
    pc,               \* position of the modelled call
    repository_url,   \* argument of parse_repo_url / analyze
    parsed,           \* result of parse_repo_url
    max_files,        \* RepositoryAnalyzer.max_files / fetch argument
    exclude_patterns, \* RepositoryAnalyzer.exclude_patterns / fetch argument
    requests,         \* listing requests made, in order: the branch and the status answered
    tree,             \* the listing _get_repo_tree returned
    filtered,         \* what _filter_code_files returned
    code_files,       \* the paths retained for content fetch
    fetch_idx,        \* how many retained paths the content loop has visited
    file_contents,    \* the dict fetch_repository_files builds, in insertion order
    analyzed_files,   \* analyze's list of FileComplexity
    calls,            \* provider invocations made so far, in order
    raw,              \* input handed to a model constructor
    result,           \* what the modelled call returned or raised
    llm_provider,     \* RepositoryAnalyzer's llm_provider: the name given, then the provider built
    in_flight,        \* the path whose provider call has started and not ended
    fetches,          \* content fetches made so far, in order, with what each answered
    dumped,           \* the structure model_dump produced from the report
    reloaded,         \* what constructing ComplexityReport from that structure gave
    tm,               \* a TokenManager: its model and its two counters
    usage_log,        \* arguments of track_usage since construction or the last reset
    truncated         \* results of successive truncate_to_limit calls

vars == <<pc, repository_url, parsed, max_files, exclude_patterns, requests,
          tree, filtered, code_files, fetch_idx, file_contents, analyzed_files,
          calls, raw, result, llm_provider, in_flight, fetches, dumped, reloaded,
          tm, usage_log, truncated>>

persistVars == <<dumped, reloaded>>
tokenVars == <<tm, usage_log, truncated>>

None == [kind |-> "none"]

----------------------------------------------------------------------------
(* Text helpers *)

StartsAt(s, i, lit) ==
    /\ i >= 1
    /\ i + Len(lit) - 1 <= Len(s)
    /\ SubSeq(s, i, i + Len(lit) - 1) = lit

EndsWith(s, suffix) ==
    /\ Len(suffix) <= Len(s)
    /\ SubSeq(s, Len(s) - Len(suffix) + 1, Len(s)) = suffix

\* Length of the longest run of characters other than '/' starting at s[i]:
\* what the greedy class [^/]+ consumes.
NonSlashRun(s, i) ==
    CHOOSE n \in 0..Len(s) :
        /\ i + n - 1 <= Len(s)
        /\ \A j \in i..(i + n - 1) : s[j] # "/"
        /\ (i + n > Len(s) \/ s[i + n] = "/")

\* str.rstrip(chars): drops every trailing character that is in the set.
RECURSIVE rstrip(_, _)
rstrip(s, chars) ==
    IF s # <<>> /\ s[Len(s)] \in chars
    THEN rstrip(SubSeq(s, 1, Len(s) - 1), chars)
    ELSE s

Min(S) == CHOOSE x \in S : \A y \in S : x <= y

SeqsUpTo(A, n) == UNION {[1..k -> A] : k \in 1..n}

Https == <<"h","t","t","p","s",":","/","/">>
Http == <<"h","t","t","p",":","/","/">>
GithubCom == <<"g","i","t","h","u","b",".","c","o","m">>
ExampleCom == <<"e","x","a","m","p","l","e",".","c","o","m">>

----------------------------------------------------------------------------
(* GitHubAPIClient.parse_repo_url *)

GithubComSlash == <<"g","i","t","h","u","b",".","c","o","m","/">>
DotGit == <<".","g","i","t">>

\* Lengths k the lazy group ([^/]+?) can take so that (?:\.git)?$ then matches.
LazyChoices(rest) ==
    {k \in 1..Len(rest) :
        /\ \A j \in 1..k : rest[j] # "/"
        /\ SubSeq(rest, k + 1, Len(rest)) \in {<<>>, DotGit}}

\* Both patterns begin  github\.com/([^/]+)/ : the text after it, or <<>>
\* when that prefix does not match at position i.
OwnerAt(s, i) ==
    LET a == i + Len(GithubComSlash) IN
    IF StartsAt(s, i, GithubComSlash) /\ a <= Len(s)
    THEN SubSeq(s, a, a + NonSlashRun(s, a) - 1)
    ELSE <<>>

PrefixMatchesAt(s, i) ==
    LET a == i + Len(GithubComSlash)
        o == OwnerAt(s, i)
    IN  /\ o # <<>>
        /\ a + Len(o) <= Len(s)
        /\ s[a + Len(o)] = "/"

AfterOwner(s, i) ==
    SubSeq(s, i + Len(GithubComSlash) + Len(OwnerAt(s, i)) + 1, Len(s))

\* r"github\.com/([^/]+)/([^/]+?)(?:\.git)?$"
Pattern1At(s, i) == PrefixMatchesAt(s, i) /\ LazyChoices(AfterOwner(s, i)) # {}

Pattern1Group2(s, i) ==
    LET rest == AfterOwner(s, i) IN SubSeq(rest, 1, Min(LazyChoices(rest)))

\* r"github\.com/([^/]+)/([^/]+)"
Pattern2At(s, i) == PrefixMatchesAt(s, i) /\ NonSlashRun(AfterOwner(s, i), 1) >= 1

Pattern2Group2(s, i) ==
    LET rest == AfterOwner(s, i) IN SubSeq(rest, 1, NonSlashRun(rest, 1))

GitChars == {".", "g", "i", "t"}

parse_repo_url(url) ==
    LET m1 == {i \in 1..Len(url) : Pattern1At(url, i)}
        m2 == {i \in 1..Len(url) : Pattern2At(url, i)}
    IN  IF m1 # {}
        THEN [kind |-> "ok", owner |-> OwnerAt(url, Min(m1)),
              repo |-> rstrip(Pattern1Group2(url, Min(m1)), GitChars)]
        ELSE IF m2 # {}
        THEN [kind |-> "ok", owner |-> OwnerAt(url, Min(m2)),
              repo |-> rstrip(Pattern2Group2(url, Min(m2)), GitChars)]
        ELSE [kind |-> "raised", error |-> "ValueError"]

----------------------------------------------------------------------------
(* GitHubAPIClient._filter_code_files, _should_exclude and the max_files cut *)

\* A matcher of another kind: "*" and "?" stop at "/"
RECURSIVE fnmatch_within_segment(_, _)
fnmatch_within_segment(name, pat) ==
    IF pat = <<>> THEN name = <<>>
    ELSE IF Head(pat) = "*"
    THEN \E k \in 0..Len(name) :
            /\ \A m \in 1..k : name[m] # "/"
            /\ fnmatch_within_segment(SubSeq(name, k + 1, Len(name)), Tail(pat))
    ELSE IF name = <<>> THEN FALSE
    ELSE /\ (Head(pat) = Head(name) \/ (Head(pat) = "?" /\ Head(name) # "/"))
         /\ fnmatch_within_segment(Tail(name), Tail(pat))

\* fnmatch.fnmatch(name, pat) on POSIX (normcase is the identity): the whole
\* name must match; '*' matches any run of characters, '/' included, and '?'
\* any one character.  Bracket expressions are not modelled (no pattern used
\* here has one).
RECURSIVE fnmatch(_, _)
fnmatch(name, pat) ==
    IF pat = <<>> THEN name = <<>>
    ELSE IF Head(pat) = "*"
    THEN \E k \in 0..Len(name) : fnmatch(SubSeq(name, k + 1, Len(name)), Tail(pat))
    ELSE IF name = <<>> THEN FALSE
    ELSE /\ (Head(pat) = "?" \/ Head(pat) = Head(name))
         /\ fnmatch(Tail(name), Tail(pat))

\* A faulty _should_exclude: only the first pattern is tried
should_exclude_first_only(path, patterns) ==
    patterns # <<>> /\ fnmatch(path, patterns[1])

should_exclude(path, patterns) ==
    \E i \in 1..Len(patterns) : fnmatch(path, patterns[i])

code_extensions ==
    { <<".","p","y">>, <<".","j","s">>, <<".","t","s">>, <<".","j","a","v","a">>,
      <<".","c","p","p">>, <<".","c">>, <<".","h">>, <<".","h","p","p">>,
      <<".","g","o">>, <<".","r","s">>, <<".","r","b">>, <<".","p","h","p">>,
      <<".","c","s">>, <<".","s","w","i","f","t">>, <<".","k","t">>,
      <<".","s","c","a","l","a">> }

\* One iteration of the loop of _filter_code_files: is the item kept?
KeepsItem(item, patterns) ==
    /\ item.type = "blob"
    /\ \E ext \in code_extensions : EndsWith(item.path, ext)
    /\ ~should_exclude(item.path, patterns)

RECURSIVE filter_code_files(_, _)
filter_code_files(items, patterns) ==
    IF items = <<>> THEN <<>>
    ELSE (IF KeepsItem(Head(items), patterns) THEN <<Head(items).path>> ELSE <<>>)
         \o filter_code_files(Tail(items), patterns)

\* Python's seq[:n]
SliceTo(seq, n) ==
    IF n >= 0
    THEN SubSeq(seq, 1, IF n < Len(seq) THEN n ELSE Len(seq))
    ELSE SubSeq(seq, 1, Len(seq) + n)

----------------------------------------------------------------------------
(* models.py: FileComplexity and ComplexityReport *)

\* Fields in declaration order: pydantic validates them in this order and hands
\* a validator only the fields validated before its own.
FileFields ==
    <<"file_path", "total_score", "cyclomatic_score", "architectural_score",
      "algorithmic_score", "line_count", "function_count", "class_count",
      "patterns_detected", "reasoning">>

Tolerance == 20
MinReasoning == 10
MaxScore == 100

MinOf(a, b) == IF a <= b THEN a ELSE b

\* FileComplexity.validate_total_score(v, values); values is given here as the
\* set of names of the fields validated so far.
validate_total_score(v, values, r) ==
    IF "cyclomatic_score" \in values /\ "architectural_score" \in values
    THEN ~(v < MinOf(r.cyclomatic_score, r.architectural_score) - Tolerance)
    ELSE TRUE

InScoreRange(v) == 0 <= v /\ v <= MaxScore

FileFieldOK(name, r, values) ==
    CASE name = "total_score" ->
            InScoreRange(r.total_score) /\ validate_total_score(r.total_score, values, r)
      [] name = "cyclomatic_score" -> InScoreRange(r.cyclomatic_score)
      [] name = "architectural_score" -> InScoreRange(r.architectural_score)
      [] name = "algorithmic_score" -> InScoreRange(r.algorithmic_score)
      [] name = "line_count" -> r.line_count > 0
      [] name = "function_count" -> r.function_count >= 0
      [] name = "class_count" -> r.class_count >= 0
      [] name = "reasoning" -> Len(r.reasoning) >= MinReasoning
      [] OTHER -> TRUE

\* Names of the fields among the first n that validated.
RECURSIVE FileValues(_, _)
FileValues(r, n) ==
    IF n = 0 THEN {}
    ELSE LET values == FileValues(r, n - 1) IN
         IF FileFieldOK(FileFields[n], r, values)
         THEN values \cup {FileFields[n]}
         ELSE values

\* FileComplexity(**r) succeeds
FileComplexityAccepts(r) ==
    FileValues(r, Len(FileFields)) = {FileFields[i] : i \in 1..Len(FileFields)}

ReportFields ==
    <<"repository_url", "analyzed_files", "top_file", "score", "metadata", "timestamp">>

FilePaths(files) == {files[i].file_path : i \in 1..Len(files)}

\* A faulty validate_top_file: any top_file passes
validate_top_file_skipped(v, values, r) == TRUE

\* ComplexityReport.validate_top_file(v, values)
validate_top_file(v, values, r) ==
    IF "analyzed_files" \in values
    THEN v \in FilePaths(r.analyzed_files)
    ELSE TRUE

\* The report's score is kept in hundredths of a point.
ReportFieldOK(name, r, values) ==
    CASE name = "top_file" -> validate_top_file(r.top_file, values, r)
      [] name = "score" -> 0 <= r.score /\ r.score <= MaxScore * 100
      [] OTHER -> TRUE

RECURSIVE ReportValues(_, _)
ReportValues(r, n) ==
    IF n = 0 THEN {}
    ELSE LET values == ReportValues(r, n - 1) IN
         IF ReportFieldOK(ReportFields[n], r, values)
         THEN values \cup {ReportFields[n]}
         ELSE values

\* ComplexityReport(**r) succeeds
ComplexityReportAccepts(r) ==
    ReportValues(r, Len(ReportFields)) = {ReportFields[i] : i \in 1..Len(ReportFields)}

----------------------------------------------------------------------------
(* RepositoryAnalyzer.analyze and GitHubAPIClient.fetch_repository_files *)

RECURSIVE SumTotals(_)
SumTotals(files) ==
    IF files = <<>> THEN 0 ELSE Head(files).total_score + SumTotals(Tail(files))

\* A faulty choice of the top file: the last of the maximal ones
MaxByTotalLast(files) ==
    files[CHOOSE i \in 1..Len(files) :
            /\ \A j \in 1..Len(files) : files[j].total_score <= files[i].total_score
            /\ \A j \in (i + 1)..Len(files) : files[j].total_score < files[i].total_score]

\* max(analyzed_files, key=lambda x: x.total_score): the first of the maximal ones
MaxByTotal(files) ==
    files[Min({i \in 1..Len(files) :
                 \A j \in 1..Len(files) : files[j].total_score <= files[i].total_score})]

\* A faulty rounding: the digits after the second decimal are cut off
TruncateHundredths(num, den) == (100 * num) \div den

\* round(num / den, 2) in hundredths, for num >= 0 and den > 0; a tie goes to
\* the even neighbour.
RoundHundredths(num, den) ==
    LET q == (100 * num) \div den
        r == (100 * num) % den
    IN  IF 2 * r < den THEN q
        ELSE IF 2 * r > den THEN q + 1
        ELSE IF q % 2 = 0 THEN q ELSE q + 1

\* The keyword arguments analyze passes to ComplexityReport
ReportArgs(url, files, fetched, patterns) ==
    [repository_url |-> url,
     analyzed_files |-> files,
     top_file |-> MaxByTotal(files).file_path,
     score |-> RoundHundredths(SumTotals(files), Len(files)),
     metadata |-> [total_files |-> Len(fetched), analyzed_count |-> Len(files),
                   excluded_patterns |-> patterns],
     timestamp |-> "utcnow"]

\* RepositoryAnalyzer.__init__: exclude_patterns or the default list
DefaultExcludes ==
    << <<"t","e","s","t","s","/","*">>, <<"*",".","m","d">>, <<"*",".","t","x","t">> >>

InitExcludes(arg) == IF arg = <<>> THEN DefaultExcludes ELSE arg

\* dict assignment d[k] = v on a dict kept as a sequence in insertion order
DictPut(d, k, v) ==
    IF \E i \in 1..Len(d) : d[i].path = k
    THEN [i \in 1..Len(d) |-> IF d[i].path = k THEN [path |-> k, content |-> v] ELSE d[i]]
    ELSE Append(d, [path |-> k, content |-> v])

\* An exception leaving analyze, and the phase of the run it was raised in
Raised(error, phase) == [kind |-> "raised", error |-> error, phase |-> phase]

\* Provider names a caller may pass; the factory compares them exactly
ProviderNames == {"openai", "anthropic", "OpenAI", "gemini"}

\* os.getenv("OPENAI_MODEL", "gpt-5") with the variable unset
OpenAIDefaultModel == "gpt-5"

\* A faulty factory: a name it does not know falls back to the OpenAI provider
create_llm_provider_fallback(provider, model) ==
    IF provider = "anthropic"
    THEN [kind |-> "ok",
          value |-> [kind |-> "provider", class |-> "AnthropicProvider",
                     model |-> IF model = "" THEN "claude-3-opus-20240229" ELSE model]]
    ELSE [kind |-> "ok",
          value |-> [kind |-> "provider", class |-> "OpenAIProvider",
                     model |-> IF model = "" THEN OpenAIDefaultModel ELSE model]]

\* RepositoryAnalyzer._create_llm_provider; model "" stands for None
create_llm_provider(provider, model) ==
    IF provider = "openai"
    THEN [kind |-> "ok",
          value |-> [kind |-> "provider", class |-> "OpenAIProvider",
                     model |-> IF model = "" THEN OpenAIDefaultModel ELSE model]]
    ELSE IF provider = "anthropic"
    THEN [kind |-> "ok",
          value |-> [kind |-> "provider", class |-> "AnthropicProvider",
                     model |-> IF model = "" THEN "claude-3-opus-20240229" ELSE model]]
    ELSE [kind |-> "raised", error |-> "ValueError", message |-> "Unknown provider",
          phase |-> "Construction"]

\* RepositoryAnalyzer.__init__: the client and the token manager are built and
\* max_files and exclude_patterns assigned (none of which sends a request), then
\* the factory runs.  When it raises, no analyzer exists; otherwise analyze is
\* called on the analyzer built.
NewAnalyzer ==
    /\ pc = "new_analyzer"
    /\ LET made == create_llm_provider(llm_provider.name, llm_provider.model) IN
       IF made.kind = "raised"
       THEN pc' = "no_analyzer" /\ result' = made /\ UNCHANGED llm_provider
       ELSE pc' = "Fetching" /\ llm_provider' = made.value /\ UNCHANGED result
    /\ UNCHANGED <<repository_url, parsed, max_files, exclude_patterns, requests, tree,
                   filtered, code_files, fetch_idx, file_contents, analyzed_files,
                   calls, raw>>
    /\ UNCHANGED <<in_flight, fetches, persistVars, tokenVars>>

\* fetch_repository_files, line 79
FetchParse ==
    /\ pc = "Fetching"
    /\ parsed' = parse_repo_url(repository_url)
    /\ IF parsed'.kind = "raised"
       THEN pc' = "Failed" /\ result' = Raised("ValueError", "Fetching")
       ELSE pc' = "tree_main" /\ UNCHANGED result
    /\ UNCHANGED <<repository_url, max_files, exclude_patterns, requests, tree,
                   filtered, code_files, fetch_idx, file_contents, analyzed_files,
                   calls, raw>>
    /\ UNCHANGED <<llm_provider, in_flight, fetches, persistVars, tokenVars>>

MaxTree == 4
MaxFiles == 3

PathA == <<"s","r","c","/","a",".","p","y">>
PathB == <<"s","r","c","/","b",".","p","y">>
PathReadme == <<"R","E","A","D","M","E",".","m","d">>
PathT == <<"t","e","s","t","s","/","t",".","p","y">>
PathC == <<"l","i","b","/","c",".","j","s">>
PathDir == <<"d",".","p","y">>

Blob(path) == [type |-> "blob", path |-> path]

\* Entries a listing is made of; the last is a directory whose name ends in .py
Items == <<Blob(PathA), Blob(PathB), Blob(PathReadme), Blob(PathT), Blob(PathC),
           [type |-> "tree", path |-> PathDir]>>

\* Listings the server answers an analyze run with
Listings == {SubSeq(Items, 1, n) : n \in 0..MinOf(MaxTree, Len(Items))}

\* Status codes the listing endpoint answers with
Statuses == {200, 404, 500}

\* Response.raise_for_status raises for 4xx and 5xx
RaisesForStatus(status) == 400 <= status /\ status < 600

\* A faulty _get_repo_tree: without raise_for_status an error answer counts as
\* a listing
TreeResponseUnchecked(status, listing, fallback) ==
    IF status = 404 /\ fallback
    THEN pc' = "tree_master" /\ UNCHANGED <<tree, result>>
    ELSE pc' = "filter" /\ tree' = listing /\ UNCHANGED result

\* The HTTPError raise_for_status raises: it carries the response
HTTPError(status) ==
    [kind |-> "raised", error |-> "HTTPError", phase |-> "Fetching", status |-> status]

\* A faulty _get_repo_tree: any error answer for main makes it try master
TreeResponseAnyError(status, listing, fallback) ==
    IF RaisesForStatus(status) /\ fallback
    THEN pc' = "tree_master" /\ UNCHANGED <<tree, result>>
    ELSE IF RaisesForStatus(status)
    THEN pc' = "Failed" /\ result' = HTTPError(status) /\ UNCHANGED tree
    ELSE pc' = "filter" /\ tree' = listing /\ UNCHANGED result

\* _get_repo_tree, lines 108-120, after the response to a request has arrived
TreeResponse(status, listing, fallback) ==
    IF status = 404 /\ fallback
    THEN pc' = "tree_master" /\ UNCHANGED <<tree, result>>
    ELSE IF RaisesForStatus(status)
    THEN pc' = "Failed" /\ result' = HTTPError(status) /\ UNCHANGED tree
    ELSE pc' = "filter" /\ tree' = listing /\ UNCHANGED result

\* _get_repo_tree, line 111: the request for branch main
GetTreeMain ==
    /\ pc = "tree_main"
    /\ \E status \in Statuses, listing \in Listings :
          /\ (RaisesForStatus(status) => listing = <<>>)
          /\ requests' = Append(requests, [branch |-> "main", status |-> status])
          /\ TreeResponse(status, listing, TRUE)
    /\ UNCHANGED <<repository_url, parsed, max_files, exclude_patterns, filtered,
                   code_files, fetch_idx, file_contents, analyzed_files, calls, raw>>
    /\ UNCHANGED <<llm_provider, in_flight, fetches, persistVars, tokenVars>>

\* _get_repo_tree, line 115: the request for branch master
GetTreeMaster ==
    /\ pc = "tree_master"
    /\ \E status \in Statuses, listing \in Listings :
          /\ (RaisesForStatus(status) => listing = <<>>)
          /\ requests' = Append(requests, [branch |-> "master", status |-> status])
          /\ TreeResponse(status, listing, FALSE)
    /\ UNCHANGED <<repository_url, parsed, max_files, exclude_patterns, filtered,
                   code_files, fetch_idx, file_contents, analyzed_files, calls, raw>>
    /\ UNCHANGED <<llm_provider, in_flight, fetches, persistVars, tokenVars>>

\* fetch_repository_files, lines 88-94
FilterAndLimit ==
    /\ pc = "filter"
    /\ filtered' = filter_code_files(tree, exclude_patterns)
    /\ code_files' = SliceTo(filtered', max_files)
    /\ fetch_idx' = 0
    /\ file_contents' = <<>>
    /\ pc' = "content"
    /\ UNCHANGED <<repository_url, parsed, max_files, exclude_patterns, requests,
                   tree, analyzed_files, calls, raw, result>>
    /\ UNCHANGED <<llm_provider, in_flight, fetches, persistVars, tokenVars>>

\* str.encode("utf-8") for code points below 0x10000
Utf8(cp) ==
    IF cp < 128 THEN <<cp>>
    ELSE IF cp < 2048 THEN <<192 + (cp \div 64), 128 + (cp % 64)>>
    ELSE <<224 + (cp \div 4096), 128 + ((cp \div 64) % 64), 128 + (cp % 64)>>

RECURSIVE Utf8Encode(_)
Utf8Encode(text) ==
    IF text = <<>> THEN <<>> ELSE Utf8(Head(text)) \o Utf8Encode(Tail(text))

IsContinuation(b) == 128 <= b /\ b <= 191

SecondByteOK(lead, b) ==
    IF lead = 224 THEN 160 <= b /\ b <= 191
    ELSE IF lead = 237 THEN 128 <= b /\ b <= 159
    ELSE IsContinuation(b)

ReplacementChar == 65533

\* bytes.decode("utf-8", errors="replace") for bytes below 0xF0: each maximal
\* ill-formed run becomes one U+FFFD
RECURSIVE Utf8DecodeReplace(_)
Utf8DecodeReplace(bs) ==
    IF bs = <<>> THEN <<>>
    ELSE LET b == bs[1]
             n == Len(bs)
             after(k) == Utf8DecodeReplace(SubSeq(bs, k + 1, n))
         IN  IF b < 128 THEN <<b>> \o after(1)
             ELSE IF 194 <= b /\ b <= 223
             THEN IF n >= 2 /\ IsContinuation(bs[2])
                  THEN <<(b - 192) * 64 + (bs[2] - 128)>> \o after(2)
                  ELSE <<ReplacementChar>> \o after(1)
             ELSE IF 224 <= b /\ b <= 239
             THEN IF n >= 2 /\ SecondByteOK(b, bs[2])
                  THEN IF n >= 3 /\ IsContinuation(bs[3])
                       THEN <<(b - 224) * 4096 + (bs[2] - 128) * 64 + (bs[3] - 128)>>
                            \o after(3)
                       ELSE <<ReplacementChar>> \o after(2)
                  ELSE <<ReplacementChar>> \o after(1)
             ELSE <<ReplacementChar>> \o after(1)

\* The base64 alphabet; a character's value is its position less one
B64Alphabet ==
    <<"A","B","C","D","E","F","G","H","I","J","K","L","M","N","O","P","Q","R","S","T",
      "U","V","W","X","Y","Z","a","b","c","d","e","f","g","h","i","j","k","l","m","n",
      "o","p","q","r","s","t","u","v","w","x","y","z","0","1","2","3","4","5","6","7",
      "8","9","+","/">>

B64Value(c) == (CHOOSE i \in 1..Len(B64Alphabet) : B64Alphabet[i] = c) - 1

IsB64Char(c) == \E i \in 1..Len(B64Alphabet) : B64Alphabet[i] = c

\* base64.b64decode(s), not validating: characters outside the alphabet are
\* skipped, enough "=" after two or three characters of a group ends the data,
\* and data that ends inside a group raises binascii.Error.  quad is the
\* position in the group, left the bits not yet written out.
RECURSIVE B64Scan(_, _, _, _, _, _)
B64Scan(s, i, quad, pads, left, out) ==
    IF i > Len(s)
    THEN IF quad = 0 THEN [kind |-> "ok", value |-> out]
         ELSE [kind |-> "raised", error |-> "binascii.Error"]
    ELSE IF s[i] = "="
    THEN IF quad >= 2 /\ quad + pads + 1 >= 4
         THEN [kind |-> "ok", value |-> out]
         ELSE B64Scan(s, i + 1, quad, IF quad >= 2 THEN pads + 1 ELSE pads, left, out)
    ELSE IF ~IsB64Char(s[i])
    THEN B64Scan(s, i + 1, quad, pads, left, out)
    ELSE LET v == B64Value(s[i]) IN
         CASE quad = 0 -> B64Scan(s, i + 1, 1, 0, v, out)
           [] quad = 1 ->
                B64Scan(s, i + 1, 2, 0, v % 16, Append(out, left * 4 + (v \div 16)))
           [] quad = 2 ->
                B64Scan(s, i + 1, 3, 0, v % 4, Append(out, left * 16 + (v \div 4)))
           [] OTHER -> B64Scan(s, i + 1, 0, 0, 0, Append(out, left * 64 + v))

b64decode(s) == B64Scan(s, 1, 0, 0, 0, <<>>)

\* bytes.decode("utf-8"), strict, for bytes below 0xF0: ill-formed input
\* raises; it is ill-formed exactly when decoding with replacement does not
\* encode back to it
utf8_decode(bs) ==
    IF Utf8Encode(Utf8DecodeReplace(bs)) = bs
    THEN [kind |-> "ok", value |-> Utf8DecodeReplace(bs)]
    ELSE [kind |-> "raised", error |-> "UnicodeDecodeError"]

\* _get_file_content, lines 167-176, given the response to its request
get_file_content(response) ==
    IF RaisesForStatus(response.status)
    THEN [kind |-> "raised", error |-> "HTTPError"]
    ELSE LET bytes == b64decode(response.content) IN
         IF bytes.kind = "raised" THEN bytes ELSE utf8_decode(bytes.value)

\* Answers of the contents endpoint: the text "a" (as GitHub sends it, with a
\* line break), the byte FF, a body cut short, and a 404
ContentResponses ==
    { [status |-> 200, content |-> <<"Y","Q","=","=","\n">>],
      [status |-> 200, content |-> <<"/","w","=","=">>],
      [status |-> 200, content |-> <<"Y","Q","=">>],
      [status |-> 404, content |-> <<>>] }

\* A faulty loop body: a failed fetch discards what was fetched before it
record_content_cleared(d, path, fetched) ==
    IF fetched.kind = "ok" THEN DictPut(d, path, fetched.value) ELSE <<>>

\* fetch_repository_files, lines 95-102: the body of the content loop
record_content(d, path, fetched) ==
    IF fetched.kind = "ok" THEN DictPut(d, path, fetched.value) ELSE d

\* fetch_repository_files, lines 94-102: one iteration of the content loop
GetFileContent ==
    /\ pc = "content"
    /\ fetch_idx < Len(code_files)
    /\ fetch_idx' = fetch_idx + 1
    /\ \E response \in ContentResponses :
          /\ fetches' = Append(fetches, [path |-> code_files[fetch_idx'], response |-> response])
          /\ file_contents' = record_content(file_contents, code_files[fetch_idx'],
                                              get_file_content(response))
    /\ UNCHANGED <<pc, repository_url, parsed, max_files, exclude_patterns, requests,
                   tree, filtered, code_files, analyzed_files, calls, raw, result>>
    /\ UNCHANGED <<llm_provider, in_flight, persistVars, tokenVars>>

\* fetch_repository_files, line 104, and analyze, lines 192-195
FetchReturn ==
    /\ pc = "content"
    /\ fetch_idx = Len(code_files)
    /\ pc' = "Analyzing"
    /\ analyzed_files' = <<>>
    /\ UNCHANGED <<repository_url, parsed, max_files, exclude_patterns, requests,
                   tree, filtered, code_files, fetch_idx, file_contents, calls, raw,
                   result>>
    /\ UNCHANGED <<llm_provider, in_flight, fetches, persistVars, tokenVars>>

LongText == <<"l","o","n","g"," ","e","n","o","u","g","h">>
ShortText == <<"s","h","o","r","t">>

FileRecord(path, total, cyc, arch, lines, reasoning) ==
    [file_path |-> path, total_score |-> total, cyclomatic_score |-> cyc,
     architectural_score |-> arch, algorithmic_score |-> 50, line_count |-> lines,
     function_count |-> 0, class_count |-> 0, patterns_detected |-> <<>>,
     reasoning |-> reasoning]

\* Total scores the backend answers with during an analyze run; 101 is out of range
TotalScores == {0, 1, 30, 70, 101}

\* What the backend can do when asked about one file: the call fails, or it
\* answers with field values that the output parser hands to FileComplexity.
ProviderOutcomes(path) ==
    {[kind |-> "transport_error"]}
    \cup {[kind |-> "response", fields |-> FileRecord(path, t, 50, 50, 1, LongText)] :
            t \in TotalScores}
    \cup {[kind |-> "response", fields |-> FileRecord(path, 0, 100, 100, 1, LongText)]}

\* LLMProvider.analyze_file: the parsed FileComplexity, or None when it raised
analyze_file(outcome) ==
    IF outcome.kind = "response" /\ FileComplexityAccepts(outcome.fields)
    THEN [kind |-> "ok", value |-> outcome.fields]
    ELSE None

\* A faulty loop body: a failed file discards the results gathered so far
record_result_reset(files, complexity) ==
    IF complexity.kind = "ok" THEN Append(files, complexity.value) ELSE <<>>

\* analyze, lines 197-203: what the loop body leaves in analyzed_files
record_result(files, complexity) ==
    IF complexity.kind = "ok" THEN Append(files, complexity.value) ELSE files

\* A faulty loop: a file whose call failed is visited again
NextFileRetry(cs) ==
    IF cs # <<>> /\ cs[Len(cs)].returned = None /\ (Len(cs) = 1 \/ cs[Len(cs) - 1].returned # None)
    THEN Len(cs)
    ELSE Len(cs) + 1

\* analyze, line 196: the loop visits the entries of files in order, one for
\* each call already ended
NextFile(cs) == Len(cs) + 1

\* analyze, line 198: analyze_file is called for the next fetched file
InvokeProvider ==
    /\ pc = "Analyzing"
    /\ in_flight = None
    /\ NextFile(calls) <= Len(file_contents)
    /\ in_flight' = [path |-> file_contents[NextFile(calls)].path]
    /\ UNCHANGED <<pc, repository_url, parsed, max_files, exclude_patterns, requests,
                   tree, filtered, code_files, fetch_idx, file_contents, analyzed_files,
                   calls, raw, result>>
    /\ UNCHANGED <<llm_provider, fetches, persistVars, tokenVars>>

\* analyze, lines 198-203: the call returns or raises, and the loop body ends
AnalyzeFile ==
    /\ pc = "Analyzing"
    /\ in_flight # None
    /\ \E outcome \in ProviderOutcomes(in_flight.path) :
          LET complexity == analyze_file(outcome) IN
          /\ calls' = Append(calls, [path |-> in_flight.path, returned |-> complexity])
          /\ analyzed_files' = record_result(analyzed_files, complexity)
    /\ in_flight' = None
    /\ UNCHANGED <<pc, repository_url, parsed, max_files, exclude_patterns, requests,
                   tree, filtered, code_files, fetch_idx, file_contents, raw, result>>
    /\ UNCHANGED <<llm_provider, fetches, persistVars, tokenVars>>

\* A faulty aggregation: with no result it returns a report of nulls
aggregate_nulls(url, files, fetched, patterns) ==
    IF files = <<>>
    THEN [kind |-> "report",
          report |-> [repository_url |-> url, analyzed_files |-> <<>>, top_file |-> None,
                      score |-> 0, metadata |-> <<>>, timestamp |-> "utcnow"]]
    ELSE [kind |-> "report", report |-> ReportArgs(url, files, fetched, patterns)]

\* analyze, lines 205-220, for a non-empty or empty list of results
aggregate(url, files, fetched, patterns) ==
    IF files = <<>>
    THEN Raised("ValueError", "Aggregating")
    ELSE IF ComplexityReportAccepts(ReportArgs(url, files, fetched, patterns))
    THEN [kind |-> "report", report |-> ReportArgs(url, files, fetched, patterns)]
    ELSE Raised("ValidationError", "Aggregating")

Aggregate ==
    /\ pc = "Analyzing"
    /\ in_flight = None
    /\ NextFile(calls) > Len(file_contents)
    /\ result' = aggregate(repository_url, analyzed_files, file_contents, exclude_patterns)
    /\ pc' = IF result'.kind = "report" THEN "Done" ELSE "Failed"
    /\ UNCHANGED <<repository_url, parsed, max_files, exclude_patterns, requests,
                   tree, filtered, code_files, fetch_idx, file_contents,
                   analyzed_files, calls, raw>>
    /\ UNCHANGED <<llm_provider, in_flight, fetches, persistVars, tokenVars>>

\* BaseModel.model_dump of a FileComplexity: a dict, kept as the sequence of
\* its name-value pairs in field order
model_dump_file(f) == [i \in 1..Len(FileFields) |-> <<FileFields[i], f[FileFields[i]]>>]

\* A faulty dump: the metadata is left out
model_dump_no_metadata(r) ==
    [i \in 1..Len(ReportFields) |->
        <<ReportFields[i],
          IF ReportFields[i] = "analyzed_files"
          THEN [j \in 1..Len(r.analyzed_files) |-> model_dump_file(r.analyzed_files[j])]
          ELSE IF ReportFields[i] = "metadata" THEN <<>>
          ELSE r[ReportFields[i]]>>]

\* BaseModel.model_dump of a ComplexityReport: nested models become dicts
model_dump(r) ==
    [i \in 1..Len(ReportFields) |->
        <<ReportFields[i],
          IF ReportFields[i] = "analyzed_files"
          THEN [j \in 1..Len(r.analyzed_files) |-> model_dump_file(r.analyzed_files[j])]
          ELSE r[ReportFields[i]]>>]

\* d[name] on a dict kept as name-value pairs
DictGet(d, name) == d[CHOOSE i \in 1..Len(d) : d[i][1] = name][2]

\* The keyword arguments **d for a model with the given fields
Kwargs(d, fields) == [name \in {fields[i] : i \in 1..Len(fields)} |-> DictGet(d, name)]

\* ComplexityReport(**d) for a dumped structure d: each entry of analyzed_files
\* is validated as a FileComplexity, then the report's own fields
model_validate(d) ==
    LET args == Kwargs(d, ReportFields)
        files == [j \in 1..Len(args.analyzed_files) |->
                    Kwargs(args.analyzed_files[j], FileFields)]
        built == [args EXCEPT !["analyzed_files"] = files]
    IN  IF /\ \A j \in 1..Len(files) : FileComplexityAccepts(files[j])
           /\ ComplexityReportAccepts(built)
        THEN [kind |-> "report", report |-> built]
        ELSE Raised("ValidationError", "reload")

\* _save_report: the report analyze returned is dumped to its structure
SaveReport ==
    /\ pc = "Done"
    /\ dumped' = model_dump(result.report)
    /\ pc' = "Saved"
    /\ UNCHANGED <<repository_url, parsed, max_files, exclude_patterns, requests,
                   tree, filtered, code_files, fetch_idx, file_contents,
                   analyzed_files, calls, raw, result>>
    /\ UNCHANGED <<llm_provider, in_flight, fetches, reloaded, tokenVars>>

\* A ComplexityReport is constructed from the dumped structure
ReloadReport ==
    /\ pc = "Saved"
    /\ reloaded' = model_validate(dumped)
    /\ pc' = "Reloaded"
    /\ UNCHANGED <<repository_url, parsed, max_files, exclude_patterns, requests,
                   tree, filtered, code_files, fetch_idx, file_contents,
                   analyzed_files, calls, raw, result>>
    /\ UNCHANGED <<llm_provider, in_flight, fetches, dumped, tokenVars>>

\* FileComplexity(**raw), called directly
ConstructFileComplexity ==
    /\ pc = "file_complexity"
    /\ result' = IF FileComplexityAccepts(raw)
                 THEN [kind |-> "ok", value |-> raw]
                 ELSE Raised("ValidationError", "construction")
    /\ pc' = "constructed"
    /\ UNCHANGED <<repository_url, parsed, max_files, exclude_patterns, requests,
                   tree, filtered, code_files, fetch_idx, file_contents,
                   analyzed_files, calls, raw>>
    /\ UNCHANGED <<llm_provider, in_flight, fetches, persistVars, tokenVars>>

\* ComplexityReport(**raw), called directly
ConstructReport ==
    /\ pc = "complexity_report"
    /\ result' = IF ComplexityReportAccepts(raw)
                 THEN [kind |-> "report", report |-> raw]
                 ELSE Raised("ValidationError", "construction")
    /\ pc' = "constructed"
    /\ UNCHANGED <<repository_url, parsed, max_files, exclude_patterns, requests,
                   tree, filtered, code_files, fetch_idx, file_contents,
                   analyzed_files, calls, raw>>
    /\ UNCHANGED <<llm_provider, in_flight, fetches, persistVars, tokenVars>>

Idle ==
    /\ parsed = None
    /\ max_files = 0
    /\ exclude_patterns = <<>>
    /\ requests = <<>>
    /\ tree = <<>>
    /\ filtered = <<>>
    /\ code_files = <<>>
    /\ fetch_idx = 0
    /\ file_contents = <<>>
    /\ analyzed_files = <<>>
    /\ calls = <<>>
    /\ result = None
    /\ llm_provider = None
    /\ in_flight = None
    /\ fetches = <<>>
    /\ dumped = None
    /\ reloaded = None
    /\ tm = None
    /\ usage_log = <<>>
    /\ truncated = <<>>

----------------------------------------------------------------------------
(* Specification Spec: one call of analyze, or of a model constructor *)

UrlValid == Https \o GithubCom \o <<"/","o","/","r">>
UrlInvalid == Https \o ExampleCom \o <<"/","i","n","v","a","l","i","d">>

\* exclude_patterns arguments of RepositoryAnalyzer: none given, or ["*.md"]
ExcludeArgs == { <<>>, << <<"*",".","m","d">> >> }

InitAnalyze ==
    /\ pc = "new_analyzer"
    /\ repository_url \in {UrlValid, UrlInvalid}
    /\ max_files \in 0..MaxFiles
    /\ \E arg \in ExcludeArgs : exclude_patterns = InitExcludes(arg)
    /\ parsed = None
    /\ requests = <<>>
    /\ tree = <<>>
    /\ filtered = <<>>
    /\ code_files = <<>>
    /\ fetch_idx = 0
    /\ file_contents = <<>>
    /\ analyzed_files = <<>>
    /\ calls = <<>>
    /\ raw = None
    /\ result = None
    /\ \E name \in ProviderNames : llm_provider = [kind |-> "name", name |-> name, model |-> ""]
    /\ in_flight = None
    /\ fetches = <<>>
    /\ dumped = None
    /\ reloaded = None
    /\ tm = None
    /\ usage_log = <<>>
    /\ truncated = <<>>

\* Field values FileComplexity is constructed from directly
RawFiles ==
    {FileRecord(PathA, t, c, a, n, txt) :
        t \in {-1, 0, 79, 80, 100, 101}, c \in {0, 100, 101}, a \in {50, 100},
        n \in {0, 1}, txt \in {ShortText, LongText}}

PathMissing == <<"n","o",".","p","y">>

ValidFiles == {FileRecord(p, t, 50, 50, 1, LongText) : p \in {PathA, PathB}, t \in {30, 70}}

\* Field values ComplexityReport is constructed from directly
RawReports ==
    {[repository_url |-> UrlValid, analyzed_files |-> files, top_file |-> top,
      score |-> sc, metadata |-> <<>>, timestamp |-> "utcnow"] :
        files \in {<<>>} \cup SeqsUpTo(ValidFiles, 2),
        top \in {PathA, PathB, PathMissing}, sc \in {-1, 0, 5000, 10000, 10001}}

InitConstruct ==
    /\ \/ pc = "file_complexity" /\ raw \in RawFiles
       \/ pc = "complexity_report" /\ raw \in RawReports
    /\ repository_url = <<>>
    /\ Idle

Init == InitAnalyze \/ InitConstruct

Next ==
    \/ NewAnalyzer
    \/ FetchParse
    \/ GetTreeMain
    \/ GetTreeMaster
    \/ FilterAndLimit
    \/ GetFileContent
    \/ FetchReturn
    \/ InvokeProvider
    \/ AnalyzeFile
    \/ Aggregate
    \/ SaveReport
    \/ ReloadReport
    \/ ConstructFileComplexity
    \/ ConstructReport

Spec == Init /\ [][Next]_vars

----------------------------------------------------------------------------
(* Specification SpecFilter: fetch_repository_files from the listing on *)

ItemSet == {Items[i] : i \in 1..Len(Items)}

\* Listings of at most MaxTree entries, no path listed twice
Trees ==
    {<<>>} \cup {t \in SeqsUpTo(ItemSet, MaxTree) :
                    \A i, j \in 1..Len(t) : i # j => t[i] # t[j]}

PatTests == <<"t","e","s","t","s","/","*">>
PatMd == <<"*",".","m","d">>
PatPy == <<"*",".","p","y">>
PatSrcOne == <<"s","r","c","/","?",".","p","y">>

ExcludeLists == { <<>>, <<PatTests, PatMd>>, <<PatSrcOne>>, <<PatMd, PatPy>> }

InitFilter ==
    /\ pc = "filter"
    /\ tree \in Trees
    /\ exclude_patterns \in ExcludeLists
    /\ max_files \in -1..MaxFiles
    /\ repository_url = UrlValid
    /\ parsed = parse_repo_url(UrlValid)
    /\ requests = <<[branch |-> "main", status |-> 200]>>
    /\ filtered = <<>>
    /\ code_files = <<>>
    /\ fetch_idx = 0
    /\ file_contents = <<>>
    /\ analyzed_files = <<>>
    /\ calls = <<>>
    /\ raw = None
    /\ result = None
    /\ llm_provider = None
    /\ in_flight = None
    /\ fetches = <<>>
    /\ dumped = None
    /\ reloaded = None
    /\ tm = None
    /\ usage_log = <<>>
    /\ truncated = <<>>

NextFilter ==
    \/ FilterAndLimit
    \/ GetFileContent
    \/ FetchReturn

SpecFilter == InitFilter /\ [][NextFilter]_vars

----------------------------------------------------------------------------
(* Specification SpecExclude: _should_exclude applied to one path *)

MaxPatterns == 2

PathNested == <<"t","e","s","t","s","/","a","/","b",".","p","y">>
PathTop == <<"a",".","p","y">>
PathUpper == <<"S","R","C","/","A",".","P","Y">>

ExcludePaths == {PathA, PathT, PathNested, PathTop, PathUpper, PathReadme, PathC}

PatPyUpper == <<"*",".","P","Y">>
PatSrcPy == <<"s","r","c","/","*",".","p","y">>

ExcludePatterns == {PatTests, PatMd, PatPy, PatPyUpper, PatSrcPy}

InitExclude ==
    /\ pc = "should_exclude"
    /\ \E path \in ExcludePaths, patterns \in {<<>>} \cup SeqsUpTo(ExcludePatterns, MaxPatterns) :
          raw = [path |-> path, patterns |-> patterns]
    /\ repository_url = <<>>
    /\ Idle

ShouldExclude ==
    /\ pc = "should_exclude"
    /\ result' = [value |-> should_exclude(raw.path, raw.patterns)]
    /\ pc' = "returned"
    /\ UNCHANGED <<repository_url, parsed, max_files, exclude_patterns, requests, tree,
                   filtered, code_files, fetch_idx, file_contents, analyzed_files,
                   calls, raw>>
    /\ UNCHANGED <<llm_provider, in_flight, fetches, persistVars, tokenVars>>

NextExclude == ShouldExclude

SpecExclude == InitExclude /\ [][NextExclude]_vars

----------------------------------------------------------------------------
(* Specification SpecParse: parse_repo_url applied to one URL *)

MaxRepoLen == 3


RepoChars == {"a", "t", "."}

\* URLs tried: scheme://host/o/<name><tail>, and the same without a name.
Urls ==
    {sch \o host \o <<"/", "o", "/">> \o name \o tail :
        sch \in {Https, Http}, host \in {GithubCom, ExampleCom},
        name \in SeqsUpTo(RepoChars, MaxRepoLen),
        tail \in {<<>>, DotGit, <<"/", "x">>}}
    \cup {sch \o host \o <<"/", "o">> : sch \in {Https, Http}, host \in {GithubCom, ExampleCom}}

InitParse ==
    /\ pc = "call"
    /\ repository_url \in Urls
    /\ raw = None
    /\ Idle

ParseRepoUrl ==
    /\ pc = "call"
    /\ parsed' = parse_repo_url(repository_url)
    /\ pc' = "returned"
    /\ UNCHANGED <<repository_url, max_files, exclude_patterns, requests, tree,
                   filtered, code_files, fetch_idx, file_contents, analyzed_files,
                   calls, raw, result>>
    /\ UNCHANGED <<llm_provider, in_flight, fetches, persistVars, tokenVars>>

NextParse == ParseRepoUrl

SpecParse == InitParse /\ [][NextParse]_vars

----------------------------------------------------------------------------
(* C1 *)

\* The segments of s between '/' characters.
RECURSIVE SplitSlash(_)
SplitSlash(s) ==
    LET n == NonSlashRun(s, 1) IN
    IF n = Len(s) THEN <<s>>
    ELSE <<SubSeq(s, 1, n)>> \o SplitSlash(SubSeq(s, n + 2, Len(s)))

UrlSegments(url) == SplitSlash(SubSeq(url, Len(Https) + 1, Len(url)))

WithoutDotGit(name) ==
    IF EndsWith(name, DotGit) THEN SubSeq(name, 1, Len(name) - Len(DotGit)) ELSE name

\* url is https://github.com/<owner>/<repo> or https://github.com/<owner>/<repo>.git
IsRepoForm(url) ==
    /\ StartsAt(url, 1, Https)
    /\ Len(UrlSegments(url)) = 3
    /\ UrlSegments(url)[1] = GithubCom
    /\ UrlSegments(url)[2] # <<>>
    /\ WithoutDotGit(UrlSegments(url)[3]) # <<>>

\* C1: parse_repo_url returns (owner, repo) for a URL of the form
\* https://github.com/owner/repo[.git], where repo is the last segment with only
\* a literal ".git" suffix removed, and raises for every other string.
C1_ParseExact ==
    pc = "returned" =>
        IF IsRepoForm(repository_url)
        THEN parsed = [kind |-> "ok", owner |-> UrlSegments(repository_url)[2],
                       repo |-> WithoutDotGit(UrlSegments(repository_url)[3])]
        ELSE parsed.kind = "raised"

----------------------------------------------------------------------------
(* C2 *)

\* The extension of a path: its text from the last '.' on, <<>> without one
Extension(path) ==
    LET dots == {i \in 1..Len(path) : path[i] = "."} IN
    IF dots = {} THEN <<>>
    ELSE SubSeq(path, CHOOSE i \in dots : \A j \in dots : j <= i, Len(path))

ScenarioListing == <<Blob(PathA), Blob(PathB), Blob(PathReadme), Blob(PathT)>>

Filtered == pc # "filter"

\* C2: every path _filter_code_files returns is a blob of the listing, has an
\* allow-listed extension and matches none of the exclude patterns; the listing
\* [src/a.py, src/b.py, README.md, tests/t.py] with excludes [tests/*, *.md]
\* yields exactly [src/a.py, src/b.py].
C2_FilterSound ==
    Filtered =>
        /\ \A i \in 1..Len(filtered) :
              /\ \E j \in 1..Len(tree) :
                    tree[j].path = filtered[i] /\ tree[j].type = "blob"
              /\ Extension(filtered[i]) \in code_extensions
              /\ \A k \in 1..Len(exclude_patterns) :
                    ~fnmatch(filtered[i], exclude_patterns[k])
        /\ (tree = ScenarioListing /\ exclude_patterns = <<PatTests, PatMd>>
                => filtered = <<PathA, PathB>>)

\* The scenario listing has been filtered
C2_Witness ==
    /\ Filtered
    /\ tree = ScenarioListing
    /\ exclude_patterns = <<PatTests, PatMd>>
    /\ filtered = <<PathA, PathB>>

----------------------------------------------------------------------------
(* C3 *)

AtMost(n) == IF n < 0 THEN 0 ELSE n

\* Position of a path among the survivors of filtering
SurvivorIndex(path) == CHOOSE i \in 1..Len(filtered) : filtered[i] = path

\* C3: the paths selected for content fetch are exactly the first max_files
\* survivors of filtering, in listing order; the returned mapping has at most
\* max_files entries and holds no survivor that truncation left out.
C3_FirstMaxFiles ==
    Filtered =>
        /\ Len(code_files) = MinOf(Len(filtered), AtMost(max_files))
        /\ \A i \in 1..Len(code_files) : code_files[i] = filtered[i]
        /\ Len(file_contents) <= AtMost(max_files)
        /\ \A i \in 1..Len(file_contents) :
              /\ \E j \in 1..Len(filtered) : filtered[j] = file_contents[i].path
              /\ SurvivorIndex(file_contents[i].path) <= AtMost(max_files)

\* The same statement for a max_files that is not negative
C3_FirstMaxFilesNonNegative == max_files >= 0 => C3_FirstMaxFiles

----------------------------------------------------------------------------
(* C4 *)

Returned == pc = "Done"

Report == result.report

\* |x|
Abs(x) == IF x < 0 THEN -x ELSE x

\* C4 as claimed: the score of a returned report is exactly the mean of the
\* total scores of its files, not altered by rounding.
C4_ExactMean ==
    Returned =>
        Report.score * Len(Report.analyzed_files) = 100 * SumTotals(Report.analyzed_files)

\* C4 as amended: the score of a returned report is the unweighted mean of the
\* total scores of its files rounded to two decimals, that is the multiple of
\* 0.01 within half a hundredth of the mean; totals 30 and 70 give 50.00.
C4_RoundedMean ==
    Returned =>
        LET files == Report.analyzed_files IN
        /\ 2 * Abs(Report.score * Len(files) - 100 * SumTotals(files)) <= Len(files)
        /\ (Len(files) = 2 /\ files[1].total_score = 30 /\ files[2].total_score = 70
               => Report.score = 5000)

\* A report whose mean has more than two decimals was returned
C4_Witness ==
    /\ Returned
    /\ Len(Report.analyzed_files) = 3
    /\ SumTotals(Report.analyzed_files) = 101
    /\ Report.score = 3367

----------------------------------------------------------------------------
(* C5 *)

\* C5: the top file of a returned report is the path of the first file, in
\* analysis order, whose total score is the maximum over the analyzed files.
C5_TopFileFirstMax ==
    Returned =>
        LET files == Report.analyzed_files IN
        \E i \in 1..Len(files) :
            /\ Report.top_file = files[i].file_path
            /\ \A j \in 1..Len(files) : files[j].total_score <= files[i].total_score
            /\ \A j \in 1..(i - 1) : files[j].total_score < files[i].total_score

\* A report was returned in which two files tie for the maximum
C5_Witness ==
    /\ Returned
    /\ Len(Report.analyzed_files) = 3
    /\ Report.analyzed_files[1].total_score = 30
    /\ Report.analyzed_files[2].total_score = 70
    /\ Report.analyzed_files[3].total_score = 70
    /\ Report.top_file = Report.analyzed_files[2].file_path
    /\ Report.top_file # Report.analyzed_files[3].file_path

----------------------------------------------------------------------------
(* C6 *)

\* The run got past the Fetching phase and the analysis loop has ended
AnalysisEnded ==
    \/ pc = "Done"
    \/ pc = "Failed" /\ result.phase # "Fetching"

AllCallsFailed == \A i \in 1..Len(calls) : calls[i].returned = None

\* C6: when the provider failed on every fetched file, or no file was fetched,
\* analyze raises and returns no report; a returned report never has an empty
\* list of files or a null top file.
C6_NoFilesRaises ==
    /\ (AnalysisEnded /\ AllCallsFailed =>
            pc = "Failed" /\ result.kind = "raised" /\ result.phase = "Aggregating")
    /\ (Returned =>
            /\ result.kind = "report"
            /\ Report.analyzed_files # <<>>
            /\ Report.top_file # None)

\* Two files were fetched, the provider failed on both, and analyze raised
C6_Witness ==
    /\ pc = "Failed"
    /\ result.phase = "Aggregating"
    /\ Len(calls) = 2
    /\ AllCallsFailed

----------------------------------------------------------------------------
(* C7 *)

\* The values the successful provider calls returned, in call order
RECURSIVE Successes(_)
Successes(cs) ==
    IF cs = <<>> THEN <<>>
    ELSE (IF Head(cs).returned = None THEN <<>> ELSE <<Head(cs).returned.value>>)
         \o Successes(Tail(cs))

\* C7: a failed analyze_file never ends the run: the files are visited in fetch
\* order, every fetched file has been visited when the loop ends, and
\* analyzed_files is exactly the results of the successful calls, in order.
C7_FailureIsolation ==
    /\ (pc = "Analyzing" \/ AnalysisEnded =>
            /\ Len(calls) <= Len(file_contents)
            /\ \A i \in 1..Len(calls) : calls[i].path = file_contents[i].path
            /\ analyzed_files = Successes(calls))
    /\ (AnalysisEnded => Len(calls) = Len(file_contents))
    /\ (AnalysisEnded /\ ~AllCallsFailed => Returned /\ Report.analyzed_files = Successes(calls))

\* A report was returned although the second of three files failed
C7_Witness ==
    /\ Returned
    /\ Len(calls) = 3
    /\ calls[1].returned # None
    /\ calls[2].returned = None
    /\ calls[3].returned # None
    /\ Len(analyzed_files) = 2

----------------------------------------------------------------------------
(* C8 *)

\* The last listing request was answered with an error that is not the 404 on
\* the primary branch
ListingFailed ==
    /\ requests # <<>>
    /\ LET last == requests[Len(requests)] IN
       /\ RaisesForStatus(last.status)
       /\ ~(last.branch = "main" /\ last.status = 404)

\* C8: when locator parsing or the listing fails, analyze raises at once: no
\* provider call is made, nothing is aggregated and no report is returned.
C8_FetchFailureFatal ==
    parsed.kind = "raised" \/ ListingFailed =>
        /\ pc = "Failed"
        /\ result.kind = "raised"
        /\ result.phase = "Fetching"
        /\ calls = <<>>
        /\ analyzed_files = <<>>
        /\ file_contents = <<>>
        /\ (parsed.kind = "raised" => requests = <<>>)

\* The fallback listing request was answered with a server error
C8_Witness ==
    /\ pc = "Failed"
    /\ Len(requests) = 2
    /\ requests[1] = [branch |-> "main", status |-> 404]
    /\ requests[2] = [branch |-> "master", status |-> 500]

----------------------------------------------------------------------------
(* C9 *)

\* C9: every FileComplexity that validation accepts has a total score no more
\* than 20 points below the smaller of its cyclomatic and architectural scores.
C9_TotalScoreBound ==
    pc = "constructed" /\ result.kind = "ok" =>
        result.value.total_score >=
            MinOf(result.value.cyclomatic_score, result.value.architectural_score) - Tolerance

\* C9 for the provider's answers: an answer analyze keeps satisfies the bound
C9_AnalyzedFilesBound ==
    \A i \in 1..Len(analyzed_files) :
        analyzed_files[i].total_score >=
            MinOf(analyzed_files[i].cyclomatic_score,
                  analyzed_files[i].architectural_score) - Tolerance

----------------------------------------------------------------------------
(* C10 *)

IsReportInput == pc = "constructed" /\ "top_file" \in DOMAIN raw

\* C10: a report analyze returns has at least one file, a top file that is the
\* path of one of its files and a score within [0, 100]; constructing a
\* ComplexityReport whose top file is the path of none of its files is rejected.
C10_ReportInvariants ==
    /\ (Returned =>
            /\ Report.analyzed_files # <<>>
            /\ Report.top_file \in FilePaths(Report.analyzed_files)
            /\ 0 <= Report.score /\ Report.score <= 100 * MaxScore)
    /\ (IsReportInput /\ raw.top_file \notin FilePaths(raw.analyzed_files) =>
            result.kind = "raised")

\* A report with two files, a score in range and a top file naming neither of
\* them was constructed, and rejected
C10_Witness ==
    /\ IsReportInput
    /\ Len(raw.analyzed_files) = 2
    /\ raw.score = 5000
    /\ raw.top_file = PathMissing
    /\ result.kind = "raised"

----------------------------------------------------------------------------
(* TokenManager (token_manager.py).  Here a text is a sequence of Unicode   *)
(* code points, a token is the sequence of bytes it stands for, and the     *)
(* encoding is a byte-level byte-pair encoding as tiktoken's is, with a     *)
(* three-entry merge table in place of cl100k_base's: "ab" and U+FFFD are   *)
(* single tokens, every other character is one token per UTF-8 byte, so a   *)
(* cut can fall inside a character, as it can with the library.             *)

\* The merge table, lowest rank first: a b -> ab; EF BF -> EFBF; EFBF BD -> U+FFFD
Merges ==
    << << <<97>>, <<98>> >>, << <<239>>, <<191>> >>, << <<239, 191>>, <<189>> >> >>

\* Byte-pair encoding of one piece: merge the lowest-ranked adjacent pair,
\* leftmost first, until no adjacent pair is in the table
RECURSIVE bpe(_)
bpe(parts) ==
    LET ranks == {k \in 1..Len(Merges) :
                    \E i \in 1..(Len(parts) - 1) : <<parts[i], parts[i + 1]>> = Merges[k]}
    IN  IF ranks = {} THEN parts
        ELSE LET k == Min(ranks)
                 i == Min({j \in 1..(Len(parts) - 1) : <<parts[j], parts[j + 1]>> = Merges[k]})
             IN  bpe(SubSeq(parts, 1, i - 1) \o <<parts[i] \o parts[i + 1]>>
                     \o SubSeq(parts, i + 2, Len(parts)))

\* Encoding.encode
encode(text) ==
    LET bytes == Utf8Encode(text) IN bpe([i \in 1..Len(bytes) |-> <<bytes[i]>>])

RECURSIVE Concat(_)
Concat(seqs) == IF seqs = <<>> THEN <<>> ELSE Head(seqs) \o Concat(Tail(seqs))

\* Encoding.decode: the tokens' bytes, decoded with errors="replace"
decode(tokens) == Utf8DecodeReplace(Concat(tokens))

\* TokenManager.count_tokens
count_tokens(text) == Len(encode(text))

\* TokenManager.MODEL_LIMITS.get(model, 8000)
DefaultLimit == 8000

ModelLimit(model) ==
    CASE model = "gpt-4-turbo-preview" -> 128000
      [] model = "gpt-4" -> 8192
      [] model = "gpt-3.5-turbo" -> 16385
      [] model = "claude-3-opus-20240229" -> 200000
      [] model = "claude-3-sonnet-20240229" -> 200000
      [] OTHER -> DefaultLimit

\* The max_tokens argument: absent (None) or an integer
NotGiven == [given |-> FALSE]
Given(n) == [given |-> TRUE, value |-> n]

\* max_tokens or MODEL_LIMITS.get(model, 8000): None and 0 are both false
LimitOr(max_tokens, model) ==
    IF max_tokens.given /\ max_tokens.value # 0 THEN max_tokens.value ELSE ModelLimit(model)

\* tokens[:max_tokens]
SliceTokens(tokens, n) == SliceTo(tokens, n)

\* TokenManager.truncate_to_limit
truncate_to_limit(model, text, max_tokens, buffer) ==
    LET limit == LimitOr(max_tokens, model) - buffer
        tokens == encode(text)
    IN  IF Len(tokens) <= limit THEN text ELSE decode(SliceTokens(tokens, limit))

\* A token manager as constructed
NewTokenManager(model) ==
    [model |-> model, total_input_tokens |-> 0, total_output_tokens |-> 0]

----------------------------------------------------------------------------
(* Specification SpecTruncate: truncate_to_limit applied to a text, and then *)
(* to its own result with the same arguments                                 *)

MaxTextLen == 3

\* a, b and e-acute (two bytes in UTF-8)
TextChars == {97, 98, 233}

Texts == {<<>>} \cup SeqsUpTo(TextChars, MaxTextLen)

TokenModels == {"gpt-4-turbo-preview", "gpt-4", "other-model"}

MaxTokensArgs == {NotGiven} \cup {Given(n) : n \in 0..MaxTextLen}

DefaultBuffer == 500

BufferArgs(model) ==
    {0, 1, 2, DefaultBuffer}
    \cup {ModelLimit(model) - 2, ModelLimit(model) - 1, ModelLimit(model), ModelLimit(model) + 1}

InitTruncate ==
    /\ pc = "truncate"
    /\ \E model \in TokenModels :
          /\ tm = NewTokenManager(model)
          /\ \E text \in Texts, max_tokens \in MaxTokensArgs, buffer \in BufferArgs(model) :
                raw = [text |-> text, max_tokens |-> max_tokens, buffer |-> buffer]
    /\ truncated = <<>>
    /\ usage_log = <<>>
    /\ repository_url = <<>>
    /\ parsed = None
    /\ max_files = 0
    /\ exclude_patterns = <<>>
    /\ requests = <<>>
    /\ tree = <<>>
    /\ filtered = <<>>
    /\ code_files = <<>>
    /\ fetch_idx = 0
    /\ file_contents = <<>>
    /\ analyzed_files = <<>>
    /\ calls = <<>>
    /\ result = None
    /\ llm_provider = None
    /\ in_flight = None
    /\ fetches = <<>>
    /\ dumped = None
    /\ reloaded = None

\* One call of truncate_to_limit: first on the text given, then on what the
\* call before returned
TruncateToLimit ==
    /\ pc = "truncate"
    /\ Len(truncated) < 2
    /\ LET text == IF truncated = <<>> THEN raw.text ELSE truncated[Len(truncated)] IN
       truncated' = Append(truncated,
                           truncate_to_limit(tm.model, text, raw.max_tokens, raw.buffer))
    /\ UNCHANGED <<pc, repository_url, parsed, max_files, exclude_patterns, requests,
                   tree, filtered, code_files, fetch_idx, file_contents, analyzed_files,
                   calls, raw, result>>
    /\ UNCHANGED <<llm_provider, in_flight, fetches, persistVars, tm, usage_log>>

NextTruncate == TruncateToLimit

SpecTruncate == InitTruncate /\ [][NextTruncate]_vars

----------------------------------------------------------------------------
(* Specification SpecTokens: the operations of one TokenManager, in any order *)

\* TokenManager.MODEL_COSTS: USD per 1000 tokens, here per token in units of
\* 10^-7 USD, so that costs are whole numbers; a model without an entry has none
InputRate(model) ==
    CASE model = "gpt-4-turbo-preview" -> 100
      [] model = "gpt-4" -> 300
      [] model = "gpt-3.5-turbo" -> 5
      [] model = "claude-3-opus-20240229" -> 150
      [] model = "claude-3-sonnet-20240229" -> 30
      [] OTHER -> 0

OutputRate(model) ==
    CASE model = "gpt-4-turbo-preview" -> 300
      [] model = "gpt-4" -> 600
      [] model = "gpt-3.5-turbo" -> 15
      [] model = "claude-3-opus-20240229" -> 750
      [] model = "claude-3-sonnet-20240229" -> 150
      [] OTHER -> 0

\* TokenManager.estimate_cost, in units of 10^-7 USD
estimate_cost(t, input_tokens, output_tokens) ==
    IF InputRate(t.model) = 0 /\ OutputRate(t.model) = 0
    THEN 0
    ELSE input_tokens * InputRate(t.model) + output_tokens * OutputRate(t.model)

\* A faulty track_usage: the output count is added to the input total as well
track_usage_merged(t, input_tokens, output_tokens) ==
    [t EXCEPT !.total_input_tokens = @ + input_tokens + output_tokens,
              !.total_output_tokens = @ + output_tokens]

\* TokenManager.track_usage
track_usage(t, input_tokens, output_tokens) ==
    [t EXCEPT !.total_input_tokens = @ + input_tokens,
              !.total_output_tokens = @ + output_tokens]

\* TokenManager.get_total_cost
get_total_cost(t) == estimate_cost(t, t.total_input_tokens, t.total_output_tokens)

\* TokenManager.reset
reset(t) == [t EXCEPT !.total_input_tokens = 0, !.total_output_tokens = 0]

MaxTracked == 2

\* Token counts passed to track_usage and estimate_cost
TokenCounts == 0..2

InitTokens ==
    /\ pc = "new"
    /\ \E model \in TokenModels : tm = NewTokenManager(model)
    /\ usage_log = <<>>
    /\ truncated = <<>>
    /\ repository_url = <<>>
    /\ raw = None
    /\ parsed = None
    /\ max_files = 0
    /\ exclude_patterns = <<>>
    /\ requests = <<>>
    /\ tree = <<>>
    /\ filtered = <<>>
    /\ code_files = <<>>
    /\ fetch_idx = 0
    /\ file_contents = <<>>
    /\ analyzed_files = <<>>
    /\ calls = <<>>
    /\ result = None
    /\ llm_provider = None
    /\ in_flight = None
    /\ fetches = <<>>
    /\ dumped = None
    /\ reloaded = None

TokenFrame ==
    /\ UNCHANGED <<repository_url, parsed, max_files, exclude_patterns, requests,
                   tree, filtered, code_files, fetch_idx, file_contents, analyzed_files,
                   calls, raw>>
    /\ UNCHANGED <<llm_provider, in_flight, fetches, persistVars, truncated>>

TokenOpPending == pc \in {"new", "track_usage", "reset", "estimate_cost", "get_total_cost",
                          "count_tokens", "truncate_to_limit"}

TrackUsage ==
    /\ TokenOpPending
    /\ Len(usage_log) < MaxTracked
    /\ \E input_tokens \in TokenCounts, output_tokens \in TokenCounts :
          /\ tm' = track_usage(tm, input_tokens, output_tokens)
          /\ usage_log' = Append(usage_log, <<input_tokens, output_tokens>>)
    /\ pc' = "track_usage"
    /\ result' = None
    /\ TokenFrame

Reset ==
    /\ TokenOpPending
    /\ tm' = reset(tm)
    /\ usage_log' = <<>>
    /\ pc' = "reset"
    /\ result' = None
    /\ TokenFrame

EstimateCost ==
    /\ TokenOpPending
    /\ \E input_tokens \in TokenCounts, output_tokens \in TokenCounts :
          result' = [value |-> estimate_cost(tm, input_tokens, output_tokens)]
    /\ pc' = "estimate_cost"
    /\ UNCHANGED <<tm, usage_log>>
    /\ TokenFrame

GetTotalCost ==
    /\ TokenOpPending
    /\ result' = [value |-> get_total_cost(tm)]
    /\ pc' = "get_total_cost"
    /\ UNCHANGED <<tm, usage_log>>
    /\ TokenFrame

\* Texts handed to count_tokens and truncate_to_limit between the other calls
SampleTexts == {<<>>, <<97, 98>>, <<98, 233>>}

CountTokens ==
    /\ TokenOpPending
    /\ \E text \in SampleTexts : result' = [value |-> count_tokens(text)]
    /\ pc' = "count_tokens"
    /\ UNCHANGED <<tm, usage_log>>
    /\ TokenFrame

TruncateText ==
    /\ TokenOpPending
    /\ \E text \in SampleTexts, max_tokens \in {NotGiven, Given(1)} :
          result' = [value |-> truncate_to_limit(tm.model, text, max_tokens, 0)]
    /\ pc' = "truncate_to_limit"
    /\ UNCHANGED <<tm, usage_log>>
    /\ TokenFrame

NextTokens ==
    \/ TrackUsage
    \/ Reset
    \/ EstimateCost
    \/ GetTotalCost
    \/ CountTokens
    \/ TruncateText

SpecTokens == InitTokens /\ [][NextTokens]_vars

----------------------------------------------------------------------------
(* C11: an unknown provider name fails construction before any request *)

NoNetworkActivity ==
    /\ requests = <<>>
    /\ fetches = <<>>
    /\ calls = <<>>
    /\ in_flight = None

\* C11: constructing the analyzer with a provider name other than "openai" and
\* "anthropic" raises the unknown-provider error ("Unknown provider"), builds
\* no provider, and leaves the run with no listing request, no content fetch
\* and no provider call made.
C11_UnknownProviderFailsFast ==
    [][(pc = "new_analyzer" /\ llm_provider.name \notin {"openai", "anthropic"})
         => /\ pc' = "no_analyzer"
            /\ result'.kind = "raised"
            /\ result'.error = "ValueError"
            /\ result'.message = "Unknown provider"
            /\ llm_provider' = llm_provider
            /\ NoNetworkActivity']_vars

C11_Witness ==
    /\ pc = "no_analyzer"
    /\ llm_provider.kind = "name"
    /\ llm_provider.name = "gemini"
    /\ result.kind = "raised"
    /\ NoNetworkActivity

----------------------------------------------------------------------------
(* C12: truncate_to_limit applied twice *)

\* C12: truncate_to_limit is idempotent: for every text, max_tokens and buffer,
\* truncating the result of a truncation again with the same arguments returns
\* that result unchanged.
C12_TruncateIdempotent ==
    Len(truncated) = 2 => truncated[2] = truncated[1]

\* The same for arguments that leave a limit of zero or more after the buffer
C12_TruncateIdempotentNonNegative ==
    (Len(truncated) = 2 /\ LimitOr(raw.max_tokens, tm.model) - raw.buffer >= 0)
        => truncated[2] = truncated[1]

----------------------------------------------------------------------------
(* C13: a report survives being dumped and constructed again *)

----------------------------------------------------------------------------
(* C14: what one call of truncate_to_limit returns *)

\* The allowed token count as stated: max_tokens if given, else the model's
\* limit (8000 for a model without one), minus the buffer
Allowed ==
    (IF raw.max_tokens.given THEN raw.max_tokens.value ELSE ModelLimit(tm.model))
        - raw.buffer

TruncateSpec(allowed) ==
    LET tokens == encode(raw.text)
        returned == truncated[1]
    IN  /\ Len(tokens) <= allowed => returned = raw.text
        /\ Len(tokens) > allowed => returned = decode(SubSeq(tokens, 1, allowed))
        /\ count_tokens(returned) <= (IF allowed > 0 THEN allowed ELSE 0)

\* C14: with allowed = (max_tokens if given, else the model's limit, else 8000)
\* - buffer, truncate_to_limit returns the text unchanged when its token count
\* is at most allowed, and otherwise the decoding of exactly its first allowed
\* tokens; in every case, max_tokens = 0 and buffer >= limit included, the
\* result holds at most max(allowed, 0) tokens.
C14_TruncateToAllowed ==
    Len(truncated) >= 1 => TruncateSpec(Allowed)

\* The same for a max_tokens other than 0 and a buffer of at most the limit
C14_TruncateToAllowedInRange ==
    (Len(truncated) >= 1 /\ raw.max_tokens # Given(0) /\ Allowed >= 0)
        => TruncateSpec(Allowed)

----------------------------------------------------------------------------
(* C15: the listing requests of one fetch *)

Is2xx(status) == 200 <= status /\ status < 300

\* _get_repo_tree has handed a listing back to fetch_repository_files
ListingReturned ==
    /\ requests # <<>>
    /\ pc \notin {"tree_main", "tree_master"}
    /\ ~(pc = "Failed" /\ result.phase = "Fetching")

C15_WitnessFallback ==
    /\ Len(requests) = 2
    /\ requests[2] = [branch |-> "master", status |-> 200]
    /\ ListingReturned
    /\ tree # <<>>

----------------------------------------------------------------------------
(* C16: the provider calls of one analyze run *)

\* The paths analyze_file has been called with so far, in order
Invocations ==
    [i \in 1..Len(calls) |-> calls[i].path]
        \o (IF in_flight = None THEN <<>> ELSE <<in_flight.path>>)

FetchCompleted ==
    /\ ListingReturned
    /\ pc \notin {"filter", "content"}
    /\ fetch_idx = Len(code_files)

CallsInFetchOrder ==
    /\ Len(Invocations) <= Len(file_contents)
    /\ \A i \in 1..Len(Invocations) : Invocations[i] = file_contents[i].path
    /\ \A i, j \in 1..Len(Invocations) : i # j => Invocations[i] # Invocations[j]
    /\ (AnalysisEnded => in_flight = None /\ Len(Invocations) = Len(file_contents))
    /\ (Invocations # <<>> => FetchCompleted)

\* C16: in one analyze run analyze_file is called once for each fetched file,
\* in fetch order, a file whose call failed is not called again, a call starts
\* only when the call before it has returned or failed, and no call is made
\* before the fetch has completed.
C16_OneCallPerFile ==
    /\ []CallsInFetchOrder
    /\ [][(in_flight' # None /\ in_flight' # in_flight)
            => (in_flight = None /\ calls' = calls /\ Len(calls) = Len(Invocations))]_vars

\* The call for the third file is in progress after the call for the first failed
C16_Witness ==
    /\ pc = "Analyzing"
    /\ Len(calls) = 2
    /\ calls[1].returned = None
    /\ calls[2].returned # None
    /\ in_flight # None
    /\ in_flight.path = file_contents[3].path

----------------------------------------------------------------------------
(* C17: the usage counters of a TokenManager *)

RECURSIVE SumInputs(_)
SumInputs(log) == IF log = <<>> THEN 0 ELSE Head(log)[1] + SumInputs(Tail(log))

RECURSIVE SumOutputs(_)
SumOutputs(log) == IF log = <<>> THEN 0 ELSE Head(log)[2] + SumOutputs(Tail(log))

CountersMatchLog ==
    /\ tm.total_input_tokens = SumInputs(usage_log)
    /\ tm.total_output_tokens = SumOutputs(usage_log)
    /\ (pc = "get_total_cost" =>
            result.value = estimate_cost(tm, tm.total_input_tokens, tm.total_output_tokens))

\* C17: total_input_tokens and total_output_tokens are the sums of the
\* arguments of the track_usage calls since construction or the last reset;
\* reset sets both to 0; no other operation changes them; get_total_cost
\* returns estimate_cost of the two totals.
C17_UsageAccounting ==
    /\ []CountersMatchLog
    /\ [][/\ (pc' = "reset" => tm'.total_input_tokens = 0 /\ tm'.total_output_tokens = 0)
          /\ (pc' \notin {"track_usage", "reset"} => tm' = tm)
          /\ tm'.model = tm.model]_vars

\* Usage tracked after a reset, then costed
C17_Witness ==
    /\ pc = "get_total_cost"
    /\ Len(usage_log) = 2
    /\ tm.total_input_tokens = 3
    /\ tm.total_output_tokens = 1
    /\ tm.model = "gpt-4"
    /\ result.value = 1500

----------------------------------------------------------------------------
(* C18: what "*" matches in an exclude pattern *)

\* C18: _should_exclude follows shell-glob semantics in which "*" never matches
\* "/", case-sensitively: a path is excluded exactly when some pattern matches
\* it segment by segment, so tests/* does not exclude tests/a/b.py and *.py
\* does not exclude src/a.py.
C18_StarStopsAtSlash ==
    pc = "returned" =>
        result.value = (\E i \in 1..Len(raw.patterns) :
                            fnmatch_within_segment(raw.path, raw.patterns[i]))

\* Position of the "*" in a pattern that has one
StarAt(pat) == CHOOSE i \in 1..Len(pat) : pat[i] = "*"

\* The path begins with what stands before the "*" and ends with what stands
\* after it, the two not overlapping
MatchesAnyRun(path, pat) ==
    LET before == SubSeq(pat, 1, StarAt(pat) - 1)
        after == SubSeq(pat, StarAt(pat) + 1, Len(pat))
    IN  /\ Len(path) >= Len(before) + Len(after)
        /\ SubSeq(path, 1, Len(before)) = before
        /\ SubSeq(path, Len(path) - Len(after) + 1, Len(path)) = after

\* C18 as the code has it: "*" matches any run of characters, "/" included,
\* case-sensitively: a path is excluded exactly when it begins and ends as some
\* pattern does around its "*", so tests/* excludes tests/a/b.py and *.py
\* excludes src/a.py, while *.PY does not.
C18_StarMatchesAnyRun ==
    pc = "returned" =>
        /\ result.value = (\E i \in 1..Len(raw.patterns) :
                               MatchesAnyRun(raw.path, raw.patterns[i]))
        /\ (raw.path = PathNested /\ raw.patterns = <<PatTests>> => result.value)
        /\ (raw.path = PathA /\ raw.patterns = <<PatPy>> => result.value)
        /\ (raw.path = PathA /\ raw.patterns = <<PatPyUpper>> => ~result.value)

C18_Witness ==
    /\ pc = "returned"
    /\ raw.path = PathNested
    /\ raw.patterns = <<PatTests>>
    /\ result.value

----------------------------------------------------------------------------
(* C19: a content fetch that fails *)

FetchSucceeded(i) == get_file_content(fetches[i].response).kind = "ok"

\* Position of a path among the retained paths
RetainedIndex(path) == CHOOSE i \in 1..Len(code_files) : code_files[i] = path

\* C19: in fetch_repository_files a retained file whose content cannot be
\* fetched or decoded (an answer that is not 2xx, invalid base64, bytes that
\* are not UTF-8) does not end the call: the loop goes on to every retained
\* path, the result leaves that path out, holds every path whose fetch
\* succeeded with its decoded text, and keeps the listing order.
C19_ContentFailureIsolated ==
    pc \in {"content", "Analyzing"} =>
        /\ Len(fetches) = fetch_idx
        /\ (pc = "Analyzing" => Len(fetches) = Len(code_files))
        /\ \A i \in 1..Len(fetches) :
              /\ fetches[i].path = code_files[i]
              /\ FetchSucceeded(i) <=>
                    \E j \in 1..Len(file_contents) : file_contents[j].path = code_files[i]
              /\ (fetches[i].response.content = <<"Y","Q","=","=","\n">> =>
                    \E j \in 1..Len(file_contents) :
                        file_contents[j] = [path |-> code_files[i], content |-> <<97>>])
        /\ \A j \in 1..Len(file_contents) :
              \E i \in 1..Len(fetches) : code_files[i] = file_contents[j].path
        /\ \A j, k \in 1..Len(file_contents) :
              j < k => RetainedIndex(file_contents[j].path) < RetainedIndex(file_contents[k].path)

\* The second of three retained files was not UTF-8; the call returned the
\* first and the third
C19_Witness ==
    /\ pc = "Analyzing"
    /\ Len(fetches) = 3
    /\ FetchSucceeded(1)
    /\ fetches[2].response = [status |-> 200, content |-> <<"/","w","=","=">>]
    /\ FetchSucceeded(3)
    /\ Len(file_contents) = 2
    /\ file_contents[1].path = code_files[1]
    /\ file_contents[2].path = code_files[3]

====
